---------------------------- MODULE Spec2Model ----------------------------
(***************************************************************************)
(* Model of switch/ykcmpdec.py: ykcmp_decompress_from(data, offset), the   *)
(* decoder of one YKCMP_V1 block.  One call of the function is one         *)
(* behaviour: the call's arguments are chosen in Init, the header checks   *)
(* are one step, and every iteration of the while loop and of its two      *)
(* inner for loops is one step.                                            *)
(*                                                                         *)
(* Bytes are integers 0..255, byte strings are sequences; the source's     *)
(* 0-based index k is the sequence index k + 1.  Python integers are       *)
(* unbounded, so no arithmetic is reduced modulo a word size.              *)
(***************************************************************************)
EXTENDS Integers, Sequences, FiniteSets, TLC

VARIABLES data, offset, pc, err, log, comp, dsize, out, cp, dp,
          num, readlen, seekback, i, peer, dat

vars == <<data, offset, pc, err, log, comp, dsize, out, cp, dp,
          num, readlen, seekback, i, peer, dat>>

(***************************************************************************)
(* Bounds of the model.                                                    *)
(***************************************************************************)
MaxLen == 4
MaxOut == 4
TokRoom == 2
MaxNops == 2
MaxFiles == 2

(***************************************************************************)
(* Python primitives used by the function.                                 *)
(***************************************************************************)
RECURSIVE BitAnd(_, _)
BitAnd(x, y) ==
    IF x = 0 \/ y = 0 THEN 0
    ELSE (x % 2) * (y % 2) + 2 * BitAnd(x \div 2, y \div 2)

RECURSIVE Pow2(_)
Pow2(n) == IF n = 0 THEN 1 ELSE 2 * Pow2(n - 1)

Shr(x, n) == x \div Pow2(n)

Shl(x, n) == x * Pow2(n)

\* s[k] of a bytes / bytearray: valid for -len <= k < len, else IndexError.
PyIndexOK(s, k) == -Len(s) <= k /\ k < Len(s)

PyGet(s, k) == IF k >= 0 THEN s[k + 1] ELSE s[Len(s) + k + 1]

PySet(s, k, v) ==
    IF k >= 0 THEN [s EXCEPT ![k + 1] = v] ELSE [s EXCEPT ![Len(s) + k + 1] = v]

Min(a, b) == IF a <= b THEN a ELSE b

\* s[lo:hi] with lo, hi >= 0: clipped to the string, empty when hi <= lo.
PySlice(s, lo, hi) ==
    LET l == Min(lo, Len(s))
        h == Min(hi, Len(s))
    IN  IF h <= l THEN << >> ELSE [k \in 1..(h - l) |-> s[l + k]]

\* int.from_bytes(s, "little")
RECURSIVE FromBytesLE(_)
FromBytesLE(s) ==
    IF s = << >> THEN 0 ELSE s[1] + 256 * FromBytesLE(Tail(s))

\* bytearray(n)
Zeros(n) == [k \in 1..n |-> 0]

MAGIC == <<89, 75, 67, 77, 80, 95, 86, 49>>

(***************************************************************************)
(* The call frame of ykcmp_decompress_from as a record, so that a step of  *)
(* the function is an operator from frames to frames.                      *)
(***************************************************************************)
Frame ==
    [data |-> data, offset |-> offset, pc |-> pc, err |-> err, log |-> log,
     comp |-> comp, dsize |-> dsize, out |-> out, cp |-> cp, dp |-> dp,
     num |-> num, readlen |-> readlen, seekback |-> seekback, i |-> i]

Call(d, o) ==
    [data |-> d, offset |-> o, pc |-> "start", err |-> "none", log |-> {},
     comp |-> << >>, dsize |-> 0, out |-> << >>, cp |-> 0, dp |-> 0,
     num |-> 0, readlen |-> 0, seekback |-> 0, i |-> 0]

\* No second call: the value of peer when one call runs alone.
NoPeer == [Call(<< >>, 0) EXCEPT !.pc = "none"]

Raise(f, e) == [f EXCEPT !.pc = "error", !.err = e]

comp_len(f) == Len(f.comp)

\* Validate without the check of the archive's end against the buffer
\* (lines 51-52).
ValidateNoEndCheck(f) ==
    LET d == f.data
        o == f.offset
        version == FromBytesLE(PySlice(d, o + 8, o + 12))
        zsize == FromBytesLE(PySlice(d, o + 12, o + 16))
        ds == FromBytesLE(PySlice(d, o + 16, o + 20))
        lg == IF version # 4 THEN {"version"} ELSE {}
        end_archive == o + zsize
    IN  IF o < 0 \/ o + 20 > Len(d) THEN Raise(f, "ValueError")
        ELSE IF PySlice(d, o, o + 8) # MAGIC THEN Raise(f, "ValueError")
        ELSE IF zsize <= 0 THEN Raise([f EXCEPT !.log = lg], "ValueError")
        ELSE [f EXCEPT !.log = lg,
                       !.comp = PySlice(d, o + 20, end_archive),
                       !.dsize = ds,
                       !.out = Zeros(ds),
                       !.cp = 0,
                       !.dp = 0,
                       !.pc = "while"]

\* Validate with the read cursor started at the payload's place in the host
\* buffer, 0x14, not in comp (line 63).
ValidateCursorInHost(f) ==
    LET d == f.data
        o == f.offset
        version == FromBytesLE(PySlice(d, o + 8, o + 12))
        zsize == FromBytesLE(PySlice(d, o + 12, o + 16))
        ds == FromBytesLE(PySlice(d, o + 16, o + 20))
        lg == IF version # 4 THEN {"version"} ELSE {}
        end_archive == o + zsize
    IN  IF o < 0 \/ o + 20 > Len(d) THEN Raise(f, "ValueError")
        ELSE IF PySlice(d, o, o + 8) # MAGIC THEN Raise(f, "ValueError")
        ELSE IF zsize <= 0 THEN Raise([f EXCEPT !.log = lg], "ValueError")
        ELSE IF end_archive > Len(d)
             THEN Raise([f EXCEPT !.log = lg], "ValueError")
        ELSE [f EXCEPT !.log = lg,
                       !.comp = PySlice(d, o + 20, end_archive),
                       !.dsize = ds,
                       !.out = Zeros(ds),
                       !.cp = 20,
                       !.dp = 0,
                       !.pc = "while"]

\* Validate with the payload sliced to the end of the host buffer, not to
\* end_archive (line 58).
ValidateToBufferEnd(f) ==
    LET d == f.data
        o == f.offset
        version == FromBytesLE(PySlice(d, o + 8, o + 12))
        zsize == FromBytesLE(PySlice(d, o + 12, o + 16))
        ds == FromBytesLE(PySlice(d, o + 16, o + 20))
        lg == IF version # 4 THEN {"version"} ELSE {}
        end_archive == o + zsize
    IN  IF o < 0 \/ o + 20 > Len(d) THEN Raise(f, "ValueError")
        ELSE IF PySlice(d, o, o + 8) # MAGIC THEN Raise(f, "ValueError")
        ELSE IF zsize <= 0 THEN Raise([f EXCEPT !.log = lg], "ValueError")
        ELSE IF end_archive > Len(d)
             THEN Raise([f EXCEPT !.log = lg], "ValueError")
        ELSE [f EXCEPT !.log = lg,
                       !.comp = PySlice(d, o + 20, Len(d)),
                       !.dsize = ds,
                       !.out = Zeros(ds),
                       !.cp = 0,
                       !.dp = 0,
                       !.pc = "while"]


\* Validate with the output buffer kept from an earlier call when it has the
\* declared size, not allocated anew (line 61).
ValidateReusesBuffer(f) ==
    LET d == f.data
        o == f.offset
        version == FromBytesLE(PySlice(d, o + 8, o + 12))
        zsize == FromBytesLE(PySlice(d, o + 12, o + 16))
        ds == FromBytesLE(PySlice(d, o + 16, o + 20))
        lg == IF version # 4 THEN {"version"} ELSE {}
        end_archive == o + zsize
    IN  IF o < 0 \/ o + 20 > Len(d) THEN Raise(f, "ValueError")
        ELSE IF PySlice(d, o, o + 8) # MAGIC THEN Raise(f, "ValueError")
        ELSE IF zsize <= 0 THEN Raise([f EXCEPT !.log = lg], "ValueError")
        ELSE IF end_archive > Len(d)
             THEN Raise([f EXCEPT !.log = lg], "ValueError")
        ELSE [f EXCEPT !.log = lg,
                       !.comp = PySlice(d, o + 20, end_archive),
                       !.dsize = ds,
                       !.out = IF Len(f.out) = ds THEN f.out ELSE Zeros(ds),
                       !.cp = 0,
                       !.dp = 0,
                       !.pc = "while"]


\* Validate with the output buffer allocated as soon as the header's size
\* field is read, before the checks of magic, zsize and end_archive.
ValidateAllocatesFirst(f) ==
    LET d == f.data
        o == f.offset
        version == FromBytesLE(PySlice(d, o + 8, o + 12))
        zsize == FromBytesLE(PySlice(d, o + 12, o + 16))
        ds == FromBytesLE(PySlice(d, o + 16, o + 20))
        lg == IF version # 4 THEN {"version"} ELSE {}
        end_archive == o + zsize
        g == [f EXCEPT !.out = Zeros(ds)]
    IN  IF o < 0 \/ o + 20 > Len(d) THEN Raise(f, "ValueError")
        ELSE IF PySlice(d, o, o + 8) # MAGIC THEN Raise(g, "ValueError")
        ELSE IF zsize <= 0 THEN Raise([g EXCEPT !.log = lg], "ValueError")
        ELSE IF end_archive > Len(d)
             THEN Raise([g EXCEPT !.log = lg], "ValueError")
        ELSE [f EXCEPT !.log = lg,
                       !.comp = PySlice(d, o + 20, end_archive),
                       !.dsize = ds,
                       !.out = Zeros(ds),
                       !.cp = 0,
                       !.dp = 0,
                       !.pc = "while"]


\* Lines 27-64: the header checks, the slice of the payload, the buffer.
Validate(f) ==
    LET d == f.data
        o == f.offset
        version == FromBytesLE(PySlice(d, o + 8, o + 12))
        zsize == FromBytesLE(PySlice(d, o + 12, o + 16))
        ds == FromBytesLE(PySlice(d, o + 16, o + 20))
        lg == IF version # 4 THEN {"version"} ELSE {}
        end_archive == o + zsize
    IN  IF o < 0 \/ o + 20 > Len(d) THEN Raise(f, "ValueError")
        ELSE IF PySlice(d, o, o + 8) # MAGIC THEN Raise(f, "ValueError")
        ELSE IF zsize <= 0 THEN Raise([f EXCEPT !.log = lg], "ValueError")
        ELSE IF end_archive > Len(d)
             THEN Raise([f EXCEPT !.log = lg], "ValueError")
        ELSE [f EXCEPT !.log = lg,
                       !.comp = PySlice(d, o + 20, end_archive),
                       !.dsize = ds,
                       !.out = Zeros(ds),
                       !.cp = 0,
                       !.dp = 0,
                       !.pc = "while"]

\* Line 66: the loop condition.
WhileCond(f) == f.cp < comp_len(f) /\ f.dp < f.dsize

\* Line 67: a = comp[cp].
CtrlByte(f) == PyGet(f.comp, f.cp)

WhileExit(f) == [f EXCEPT !.pc = "after"]

\* Nop that also writes the zero byte to the output.
NopWrites(f) ==
    IF ~PyIndexOK(f.out, f.dp) THEN Raise(f, "IndexError")
    ELSE [f EXCEPT !.out = PySet(f.out, f.dp, 0),
                   !.dp = f.dp + 1,
                   !.cp = f.cp + 1]

\* Nop without the step over the control byte (line 71).
NopStays(f) == [f EXCEPT !.pc = "while"]


\* Lines 70-72.
Nop(f) == [f EXCEPT !.cp = f.cp + 1]

\* Literal without the step over the control byte (line 77).
LiteralKeepsCtrl(f) ==
    [f EXCEPT !.num = CtrlByte(f), !.i = 0, !.pc = "lit"]

\* Lines 75-77: the head of a literal run.
Literal(f) ==
    [f EXCEPT !.num = CtrlByte(f), !.cp = f.cp + 1, !.i = 0, !.pc = "lit"]

\* LiteralStop without the test of the read cursor (line 80).
LiteralStopNoInputCheck(f) ==
    f.i >= f.num \/ f.dp >= f.dsize


\* Lines 79-81: the for loop is over, or breaks.
LiteralStop(f) ==
    f.i >= f.num \/ f.cp >= comp_len(f) \/ f.dp >= f.dsize

\* LiteralEnd with break out of the while loop, not continue (line 85).
LiteralEndLeaves(f) == [f EXCEPT !.pc = "after"]

\* Line 85: continue.
LiteralEnd(f) == [f EXCEPT !.pc = "while"]

\* LiteralCopy without the step of the write cursor (line 83).
LiteralCopyKeepsCursor(f) ==
    IF ~PyIndexOK(f.comp, f.cp) \/ ~PyIndexOK(f.out, f.dp)
    THEN Raise(f, "IndexError")
    ELSE [f EXCEPT !.out = PySet(f.out, f.dp, PyGet(f.comp, f.cp)),
                   !.cp = f.cp + 1,
                   !.i = f.i + 1]


\* LiteralCopy that takes a 0x00 byte of the run as a nop: stepped over, not
\* written (lines 82-83).
LiteralCopySkipsZero(f) ==
    IF ~PyIndexOK(f.comp, f.cp) \/ ~PyIndexOK(f.out, f.dp)
    THEN Raise(f, "IndexError")
    ELSE IF PyGet(f.comp, f.cp) = 0
    THEN [f EXCEPT !.cp = f.cp + 1, !.i = f.i + 1]
    ELSE [f EXCEPT !.out = PySet(f.out, f.dp, PyGet(f.comp, f.cp)),
                   !.dp = f.dp + 1,
                   !.cp = f.cp + 1,
                   !.i = f.i + 1]


\* Lines 82-84.
LiteralCopy(f) ==
    IF ~PyIndexOK(f.comp, f.cp) \/ ~PyIndexOK(f.out, f.dp)
    THEN Raise(f, "IndexError")
    ELSE [f EXCEPT !.out = PySet(f.out, f.dp, PyGet(f.comp, f.cp)),
                   !.dp = f.dp + 1,
                   !.cp = f.cp + 1,
                   !.i = f.i + 1]

\* LongRef with the high bits of the distance shifted by 4, not 8 (line 104).
LongRefShift4(f) ==
    IF f.cp + 2 >= comp_len(f) THEN [f EXCEPT !.pc = "after"]
    ELSE LET a == CtrlByte(f)
             b == PyGet(f.comp, f.cp + 1)
             c == PyGet(f.comp, f.cp + 2)
         IN  [f EXCEPT !.readlen = Shl(BitAnd(a, 31), 4) + Shr(b, 4) + 3,
                       !.seekback = (Shl(BitAnd(b, 15), 4) + c) + 1,
                       !.cp = f.cp + 3,
                       !.i = 0,
                       !.pc = "copy"]

\* Lines 89-107: the 3-byte sequence A B C.
LongRef(f) ==
    IF f.cp + 2 >= comp_len(f) THEN [f EXCEPT !.pc = "after"]
    ELSE LET a == CtrlByte(f)
             b == PyGet(f.comp, f.cp + 1)
             c == PyGet(f.comp, f.cp + 2)
         IN  [f EXCEPT !.readlen = Shl(BitAnd(a, 31), 4) + Shr(b, 4) + 3,
                       !.seekback = (Shl(BitAnd(b, 15), 8) + c) + 1,
                       !.cp = f.cp + 3,
                       !.i = 0,
                       !.pc = "copy"]

\* MediumRef with the length of a long reference, + 3 (line 116).
MediumRefLength3(f) ==
    IF f.cp + 1 >= comp_len(f) THEN [f EXCEPT !.pc = "after"]
    ELSE LET a == CtrlByte(f)
             b == PyGet(f.comp, f.cp + 1)
         IN  [f EXCEPT !.readlen = BitAnd(a, 63) + 3,
                       !.seekback = b + 1,
                       !.cp = f.cp + 2,
                       !.i = 0,
                       !.pc = "copy"]

\* MediumRef with the distance not raised by one (line 119).
MediumRefDistance0(f) ==
    IF f.cp + 1 >= comp_len(f) THEN [f EXCEPT !.pc = "after"]
    ELSE LET a == CtrlByte(f)
             b == PyGet(f.comp, f.cp + 1)
         IN  [f EXCEPT !.readlen = BitAnd(a, 63) + 2,
                       !.seekback = b,
                       !.cp = f.cp + 2,
                       !.i = 0,
                       !.pc = "copy"]


\* MediumRef that steps over a control byte whose parameter byte is missing
\* and goes on, not break (lines 111-112).
MediumRefSkipsCut(f) ==
    IF f.cp + 1 >= comp_len(f) THEN [f EXCEPT !.cp = f.cp + 1, !.pc = "while"]
    ELSE LET a == CtrlByte(f)
             b == PyGet(f.comp, f.cp + 1)
         IN  [f EXCEPT !.readlen = BitAnd(a, 63) + 2,
                       !.seekback = b + 1,
                       !.cp = f.cp + 2,
                       !.i = 0,
                       !.pc = "copy"]


\* MediumRef that takes a missing parameter byte as 0 and copies, not break
\* (lines 111-113).
MediumRefCutAsZero(f) ==
    LET a == CtrlByte(f)
        cut == f.cp + 1 >= comp_len(f)
        b == IF cut THEN 0 ELSE PyGet(f.comp, f.cp + 1)
    IN  [f EXCEPT !.readlen = BitAnd(a, 63) + 2,
                  !.seekback = b + 1,
                  !.cp = IF cut THEN f.cp + 1 ELSE f.cp + 2,
                  !.i = 0,
                  !.pc = "copy"]


\* Lines 109-121: the 2-byte sequence A B.
MediumRef(f) ==
    IF f.cp + 1 >= comp_len(f) THEN [f EXCEPT !.pc = "after"]
    ELSE LET a == CtrlByte(f)
             b == PyGet(f.comp, f.cp + 1)
         IN  [f EXCEPT !.readlen = BitAnd(a, 63) + 2,
                       !.seekback = b + 1,
                       !.cp = f.cp + 2,
                       !.i = 0,
                       !.pc = "copy"]

\* ShortRef with the distance not raised by one (line 130).
ShortRefDistance0(f) ==
    LET a == CtrlByte(f)
    IN  [f EXCEPT !.readlen = BitAnd(Shr(a, 4), 3) + 1,
                  !.seekback = BitAnd(a, 15),
                  !.cp = f.cp + 1,
                  !.i = 0,
                  !.pc = "copy"]

\* Lines 123-132: the 1-byte sequence A.
ShortRef(f) ==
    LET a == CtrlByte(f)
    IN  [f EXCEPT !.readlen = BitAnd(Shr(a, 4), 3) + 1,
                  !.seekback = BitAnd(a, 15) + 1,
                  !.cp = f.cp + 1,
                  !.i = 0,
                  !.pc = "copy"]

\* CopyStop without the break at the end of the buffer (line 136).
CopyStopUnbounded(f) == f.i >= f.readlen

\* Lines 135-137: the for loop is over, or breaks.
CopyStop(f) == f.i >= f.readlen \/ f.dp >= f.dsize

CopyEnd(f) == [f EXCEPT !.pc = "while"]

\* CopyByte with the source one byte too early (line 138).
CopyByteOffByOne(f) ==
    LET src_pos == f.dp - f.seekback - 1
    IN  IF ~PyIndexOK(f.out, f.dp) THEN Raise(f, "IndexError")
        ELSE LET val == IF src_pos < 0 THEN 0 ELSE PyGet(f.out, src_pos)
             IN  [f EXCEPT !.out = PySet(f.out, f.dp, val),
                           !.dp = f.dp + 1,
                           !.i = f.i + 1]

\* CopyByte as a copy of the slice out[dp - seekback : ...] taken before the
\* copy began: what the copy itself writes is not read back.
CopyByteBulk(f) ==
    LET src_pos == f.dp - f.seekback
    IN  IF ~PyIndexOK(f.out, f.dp) THEN Raise(f, "IndexError")
        ELSE LET val == IF src_pos < 0 \/ f.i >= f.seekback
                        THEN 0 ELSE PyGet(f.out, src_pos)
             IN  [f EXCEPT !.out = PySet(f.out, f.dp, val),
                           !.dp = f.dp + 1,
                           !.i = f.i + 1]

\* CopyByte without the test of a negative source (lines 139-141): a
\* negative index of a bytearray counts from its end, or raises IndexError.
CopyByteWraps(f) ==
    LET src_pos == f.dp - f.seekback
    IN  IF ~PyIndexOK(f.out, src_pos) \/ ~PyIndexOK(f.out, f.dp)
        THEN Raise(f, "IndexError")
        ELSE [f EXCEPT !.out = PySet(f.out, f.dp, PyGet(f.out, src_pos)),
                       !.dp = f.dp + 1,
                       !.i = f.i + 1]

\* Lines 138-145: one byte of a back-reference.
CopyByte(f) ==
    LET src_pos == f.dp - f.seekback
    IN  IF src_pos >= 0 /\ ~PyIndexOK(f.out, src_pos)
        THEN Raise(f, "IndexError")
        ELSE IF ~PyIndexOK(f.out, f.dp) THEN Raise(f, "IndexError")
        ELSE LET val == IF src_pos < 0 THEN 0 ELSE PyGet(f.out, src_pos)
             IN  [f EXCEPT !.out = PySet(f.out, f.dp, val),
                           !.dp = f.dp + 1,
                           !.i = f.i + 1]

\* Finish with the warning only for dp > dsize (line 147).
FinishWarnsOver(f) ==
    [f EXCEPT !.log = IF f.dp > f.dsize THEN f.log \cup {"short"} ELSE f.log,
              !.pc = "done"]

\* Finish with the warning also when input is left unread.
FinishWarnsUnread(f) ==
    [f EXCEPT !.log = IF f.dp # f.dsize \/ f.cp # comp_len(f)
                      THEN f.log \cup {"short"} ELSE f.log,
              !.pc = "done"]

\* Lines 147-150: the warning of a short decode, and the return of bytes(out).
Finish(f) ==
    [f EXCEPT !.log = IF f.dp # f.dsize THEN f.log \cup {"short"} ELSE f.log,
              !.pc = "done"]

(***************************************************************************)
(* Which step the function takes next in a frame.                          *)
(***************************************************************************)
AtValidate(f) == f.pc = "start"
AtWhileExit(f) == f.pc = "while" /\ ~WhileCond(f)
AtNop(f) == f.pc = "while" /\ WhileCond(f) /\ CtrlByte(f) = 0
AtLiteral(f) ==
    f.pc = "while" /\ WhileCond(f) /\ CtrlByte(f) # 0 /\ CtrlByte(f) < 128
AtLongRef(f) == f.pc = "while" /\ WhileCond(f) /\ CtrlByte(f) >= 224
AtMediumRef(f) ==
    f.pc = "while" /\ WhileCond(f) /\ CtrlByte(f) >= 192 /\ CtrlByte(f) < 224
AtShortRef(f) ==
    f.pc = "while" /\ WhileCond(f) /\ CtrlByte(f) >= 128 /\ CtrlByte(f) < 192
AtLiteralCopy(f) == f.pc = "lit" /\ ~LiteralStop(f)
AtLiteralEnd(f) == f.pc = "lit" /\ LiteralStop(f)
AtCopyByte(f) == f.pc = "copy" /\ ~CopyStop(f)
AtCopyEnd(f) == f.pc = "copy" /\ CopyStop(f)
AtFinish(f) == f.pc = "after"

Returned(f) == f.pc \in {"done", "error"}

Step(f) ==
    CASE AtValidate(f) -> Validate(f)
      [] AtWhileExit(f) -> WhileExit(f)
      [] AtNop(f) -> Nop(f)
      [] AtLiteral(f) -> Literal(f)
      [] AtLongRef(f) -> LongRef(f)
      [] AtMediumRef(f) -> MediumRef(f)
      [] AtShortRef(f) -> ShortRef(f)
      [] AtLiteralCopy(f) -> LiteralCopy(f)
      [] AtLiteralEnd(f) -> LiteralEnd(f)
      [] AtCopyByte(f) -> CopyByte(f)
      [] AtCopyEnd(f) -> CopyEnd(f)
      [] AtFinish(f) -> Finish(f)
      [] OTHER -> f

\* The frame in which the call that is in frame f returns or raises.
RECURSIVE Run(_)
Run(f) == IF Returned(f) THEN f ELSE Run(Step(f))

ykcmp_decompress_from(d, o) == Run(Call(d, o))


(***************************************************************************)
(* The arguments of the call.  A block is a host buffer holding, at        *)
(* offset, the 20-byte header and the payload:                             *)
(*   pad, magic[8], version[4], zsize[4], dsize[4], payload, trail.        *)
(***************************************************************************)
\* n.to_bytes(4, "little"), the inverse of the header's from_bytes fields.
ToBytesLE4(n) ==
    <<n % 256, (n \div 256) % 256, (n \div 65536) % 256,
      (n \div 16777216) % 256>>

Host(pad, magic, version, zsize, ds, payload, trail) ==
    [data |-> pad \o magic \o ToBytesLE4(version) \o ToBytesLE4(zsize)
                  \o ToBytesLE4(ds) \o payload \o trail,
     offset |-> Len(pad)]

\* A well-formed block at offset 0 that holds payload and declares n bytes.
Block(payload, n) ==
    Host(<< >>, MAGIC, 4, 20 + Len(payload), n, payload, << >>)

SeqsUpTo(S, n) == UNION {[1..k -> S] : k \in 0..n}

\* Control and data bytes of the general payloads: nop, literal runs of 1
\* and 2, the data bytes 'a' and 'b', a short reference (length 1, distance
\* 2) and a medium reference.
Alphabet == {0, 1, 2, 97, 98, 129, 192}

GeneralInputs ==
    {Block(p, n) : p \in SeqsUpTo(Alphabet, MaxLen), n \in 0..MaxOut}

\* A literal byte x, then a medium reference of distance 1 and length L.
OverlapInputs ==
    UNION {{Block(<<1, x, 192 + (L - 2), 0>>, n) :
                x \in {0, 97}, n \in {L, L + 1, L + 2}} : L \in 2..33}

\* The bytes O as literal runs of at most c bytes each.
RECURSIVE LiteralRuns(_, _)
LiteralRuns(O, c) ==
    IF O = << >> THEN << >>
    ELSE LET k == Min(c, Len(O))
         IN  <<k>> \o SubSeq(O, 1, k) \o LiteralRuns(SubSeq(O, k + 1, Len(O)), c)

DataBytes == {0, 97, 129, 224}

LiteralInputs ==
    {Block(LiteralRuns(O, c), n) :
        O \in SeqsUpTo(DataBytes, MaxLen), c \in 1..3, n \in 0..MaxOut}

\* One literal run of every length a control byte can give.
LongLiteralInputs ==
    UNION {{Block(<<a>> \o [k \in 1..a |-> 97 + (k % 3)], n) :
                n \in {a, a + 1}} : a \in 1..127}

\* The stream 03 'a' 'b' 'c' 81 02.
ScenarioPayload == <<3, 97, 98, 99, 129, 2>>

ScenarioInputs == {Block(ScenarioPayload, n) : n \in 0..7}

\* Streams with a long reference, whole and cut short.
LongRefInputs ==
    {Block(p, n) :
        p \in {<<2, 97, 98, 224, 0, 1>>, <<1, 97, 224, 16, 0>>,
               <<1, 97, 224, 0>>, <<1, 97, 224>>, <<224, 1, 0>>,
               <<1, 97, 192>>, <<255, 255, 255>>},
        n \in 0..6}

\* The literals 'a' 'b' 'c', then a medium reference of distance d and
\* length L: the distance smaller than, equal to and larger than the length.
PeriodicInputs ==
    UNION {{Block(<<3, 97, 98, 99, 192 + (L - 2), d - 1>>, n) :
                d \in 1..3, n \in {3 + L - 1, 3 + L, 3 + L + 1}} : L \in 2..6}

\* Hosts whose header is offset, damaged or inconsistent with the buffer.
HeaderInputs ==
    LET p == ScenarioPayload
        z == 20 + Len(p)
    IN  {Host(<<7>>, MAGIC, 4, z, 6, p, << >>),
         Host(<< >>, MAGIC, 4, z, 6, p, <<3, 97>>),
         Host(<<7, 7>>, MAGIC, 3, z, 6, p, <<0>>),
         Host(<< >>, MAGIC, 0, z, 4, p, << >>),
         Host(<< >>, [MAGIC EXCEPT ![1] = 88], 4, z, 6, p, << >>),
         Host(<< >>, [MAGIC EXCEPT ![8] = 50], 3, z, 6, p, << >>),
         Host(<< >>, MAGIC, 4, 0, 6, p, << >>),
         Host(<< >>, MAGIC, 3, 0, 6, p, << >>),
         Host(<< >>, MAGIC, 4, 1, 6, p, << >>),
         Host(<< >>, MAGIC, 4, 19, 2, p, << >>),
         Host(<< >>, MAGIC, 4, 20, 0, p, << >>),
         Host(<< >>, MAGIC, 4, 21, 3, p, << >>),
         Host(<< >>, MAGIC, 4, z - 2, 6, p, << >>),
         Host(<< >>, MAGIC, 4, z + 1, 6, p, << >>),
         Host(<<7>>, MAGIC, 4, z + 1, 6, p, << >>),
         Host(<< >>, MAGIC, 4, 65536, 6, p, << >>),
         Host(<< >>, MAGIC, 4, z, 256, p, << >>),
         [data |-> Block(p, 6).data, offset |-> -1],
         [data |-> Block(p, 6).data, offset |-> 1],
         [data |-> Block(p, 6).data, offset |-> 7],
         [data |-> Block(p, 6).data, offset |-> 26],
         [data |-> SubSeq(Block(p, 6).data, 1, 19), offset |-> 0],
         [data |-> << >>, offset |-> 0]}

\* One token after the literal run 02 'a' 'b': every control byte, every
\* parameter byte of a medium reference, and the parameter bytes of a long
\* reference with one of the two at an edge of its range.
TokenPrefix == <<2, 97, 98>>

\* The declared size: the prefix and TokRoom bytes for the token to write.
TokenRoom == Len(TokenPrefix) + TokRoom

EdgeBytes == {0, 15, 16, 240, 255}

OneByteInputs == {Block(TokenPrefix \o <<a>>, TokenRoom) : a \in 0..255}

TwoByteInputs ==
    {Block(TokenPrefix \o <<a, b>>, TokenRoom) : a \in 0..255, b \in 0..255}

LongTokenInputsB ==
    {Block(TokenPrefix \o <<a, b, c>>, TokenRoom) :
        a \in 224..255, b \in 0..255, c \in EdgeBytes}

LongTokenInputsC ==
    {Block(TokenPrefix \o <<a, b, c>>, TokenRoom) :
        a \in 224..255, b \in EdgeBytes, c \in 0..255}

(***************************************************************************)
(* switch/dattool.py: pack_folder and parse_archive of a PS_FS_V1? file.   *)
(* A str is a sequence of code points, bytes a sequence of 0..255, the     *)
(* .dat file a sequence of bytes with a position.  The tool's state is the *)
(* record dat: the collected files, pack_folder's locals, the file written *)
(* and parse_archive's locals.                                             *)
(***************************************************************************)
MAGIC_PREFIX == <<80, 83, 95, 70, 83, 95, 86, 49, 63>>
HEADER_SIZE == 16
ENTRY_SIZE == 64
NAME_LEN == 48
ALIGN == 16

\* struct.pack("<Q", x)
RECURSIVE ToBytesLE(_, _)
ToBytesLE(x, n) ==
    IF n = 0 THEN << >> ELSE <<x % 256>> \o ToBytesLE(x \div 256, n - 1)

u64le(x) == ToBytesLE(x, 8)

\* struct.unpack("<Q", b)[0]
read_u64_le(b) == FromBytesLE(b)

\* align_up with no rounding.
align_up_none(x, a) == x

\* (x + (a - 1)) & ~(a - 1) for a > 1: the low bits of x + a - 1 cleared.
align_up(x, a) ==
    IF a > 1 THEN (x + (a - 1)) - BitAnd(x + (a - 1), a - 1) ELSE x

\* name.encode("utf-8", "strict") for code points below 0x800.
RECURSIVE EncodeUtf8(_)
EncodeUtf8(name) ==
    IF name = << >> THEN << >>
    ELSE LET c == Head(name)
         IN  (IF c < 128 THEN <<c>>
              ELSE <<192 + (c \div 64), 128 + (c % 64)>>)
                 \o EncodeUtf8(Tail(name))

\* b.decode("utf-8", "replace") for sequences of one and two bytes; any
\* other byte gives U+FFFD.
RECURSIVE DecodeUtf8(_)
DecodeUtf8(b) ==
    IF b = << >> THEN << >>
    ELSE IF b[1] < 128 THEN <<b[1]>> \o DecodeUtf8(Tail(b))
    ELSE IF b[1] \in 194..223 /\ Len(b) >= 2 /\ b[2] \in 128..191
         THEN <<(b[1] - 192) * 64 + (b[2] - 128)>>
                  \o DecodeUtf8(Tail(Tail(b)))
    ELSE <<65533>> \o DecodeUtf8(Tail(b))

\* b.split(b"\x00", 1)[0]
RECURSIVE SplitNul(_)
SplitNul(b) ==
    IF b = << >> \/ b[1] = 0 THEN << >>
    ELSE <<b[1]>> \o SplitNul(Tail(b))

\* f.write(b) at position pos of the file bytes f: a seek past the end
\* leaves a gap of zeros once something is written.
FileWrite(f, pos, b) ==
    IF b = << >> THEN f
    ELSE [k \in 1..(IF Len(f) > pos + Len(b) THEN Len(f) ELSE pos + Len(b)) |->
            IF k > pos /\ k <= pos + Len(b) THEN b[k - pos]
            ELSE IF k <= Len(f) THEN f[k] ELSE 0]

\* f.read(n) at position pos.
FileRead(f, pos, n) == PySlice(f, pos, pos + n)

\* The tool's state before pack_folder(folder), files being what
\* collect_files(folder) returns.
DatCall(files) ==
    [pc |-> "pack", err |-> "none", files |-> files, table_entries |-> << >>,
     cur |-> 0, k |-> 0, fout |-> << >>, pos |-> 0, entries |-> << >>,
     idx |-> 0, stop |-> "none"]

\* The tool not at work.
NoDat == [DatCall(<< >>) EXCEPT !.pc = "off"]

DatRaise(d, e) == [d EXCEPT !.pc = "raised", !.err = e]

\* Lines 177-186.
PackBegin(d) ==
    IF d.files = << >> THEN DatRaise(d, "ValueError")
    ELSE [d EXCEPT !.cur = HEADER_SIZE + ENTRY_SIZE * (Len(d.files) + 1),
                   !.table_entries = << >>,
                   !.k = 0,
                   !.pc = "plan"]

\* validate_name_bytes, lines 166-170: the name fits with its terminator.
NameFits(name) == Len(EncodeUtf8(name)) < NAME_LEN

\* Lines 189-195: one pass of the loop over files.
PackPlan(d) ==
    LET file == d.files[d.k + 1]
        name_b == EncodeUtf8(file.name)
        offset_ == align_up(d.cur, ALIGN)
    IN  IF ~NameFits(file.name) THEN DatRaise(d, "ValueError")
        ELSE [d EXCEPT !.table_entries =
                            Append(@, [name_b |-> name_b, size |-> file.size,
                                       offset |-> offset_]),
                       !.cur = offset_ + file.size,
                       !.k = d.k + 1]

\* Lines 197-200: the file opened and the header written.
PackHeader(d) ==
    LET header == MAGIC_PREFIX
                      \o [j \in 1..(HEADER_SIZE - Len(MAGIC_PREFIX)) |-> 0]
    IN  [d EXCEPT !.fout = FileWrite(<< >>, 0, header),
                  !.pos = Len(header),
                  !.k = 0,
                  !.pc = "table"]

\* Lines 203-206: the record of one table entry.
Record(e) ==
    [j \in 1..ENTRY_SIZE |->
        IF j <= Len(e.name_b) THEN e.name_b[j]
        ELSE IF j > NAME_LEN /\ j <= NAME_LEN + 8 THEN u64le(e.size)[j - NAME_LEN]
        ELSE IF j > NAME_LEN + 8 /\ j <= NAME_LEN + 16
             THEN u64le(e.offset)[j - NAME_LEN - 8]
        ELSE 0]

\* Lines 202-207: one pass of the loop over table_entries.
PackEntry(d) ==
    [d EXCEPT !.fout = FileWrite(d.fout, d.pos, Record(d.table_entries[d.k + 1])),
              !.pos = d.pos + ENTRY_SIZE,
              !.k = d.k + 1]

\* Line 209: the terminator.
PackTerminator(d) ==
    [d EXCEPT !.fout = FileWrite(d.fout, d.pos, [j \in 1..ENTRY_SIZE |-> 0]),
              !.pos = d.pos + ENTRY_SIZE,
              !.k = 0,
              !.pc = "copy"]

\* Lines 211-219: one file's bytes written at its offset.
PackData(d) ==
    LET e == d.table_entries[d.k + 1]
        buf == d.files[d.k + 1].content
    IN  [d EXCEPT !.fout = FileWrite(d.fout, e.offset, buf),
                  !.pos = e.offset + Len(buf),
                  !.k = d.k + 1]

\* Line 221.
PackReturn(d) == [d EXCEPT !.pc = "packed"]

\* Lines 52-59 of parse_archive, on the file pack_folder wrote.
ParseHeader(d) ==
    LET header == FileRead(d.fout, 0, HEADER_SIZE)
    IN  IF Len(header) # HEADER_SIZE THEN DatRaise(d, "ValueError")
        ELSE IF SubSeq(header, 1, Len(MAGIC_PREFIX)) # MAGIC_PREFIX
             THEN DatRaise(d, "ValueError")
        ELSE [d EXCEPT !.pos = Len(header),
                       !.entries = << >>,
                       !.idx = 0,
                       !.pc = "read"]

\* Lines 60-74: one pass of the loop of parse_archive.
ParseEntry(d) ==
    LET rec == FileRead(d.fout, d.pos, ENTRY_SIZE)
        name_raw == SplitNul(PySlice(rec, 0, NAME_LEN))
        size == read_u64_le(PySlice(rec, NAME_LEN, NAME_LEN + 8))
        offset_ == read_u64_le(PySlice(rec, NAME_LEN + 8, NAME_LEN + 16))
        at == d.pos + Len(rec)
    IN  IF Len(rec) < ENTRY_SIZE
        THEN [d EXCEPT !.pos = at, !.stop = "eof", !.pc = "parsed"]
        ELSE IF Len(name_raw) = 0 /\ size = 0 /\ offset_ = 0
        THEN [d EXCEPT !.pos = at, !.stop = "terminator", !.pc = "parsed"]
        ELSE [d EXCEPT !.pos = at,
                       !.entries =
                           Append(@, [index |-> d.idx,
                                      name |-> DecodeUtf8(name_raw),
                                      size |-> size, offset |-> offset_]),
                       !.idx = d.idx + 1]


(***************************************************************************)
(* The state machine: the variables are the frame of the call that runs;  *)
(* peer is the frame of a second call that waits meanwhile, or NoPeer.     *)
(***************************************************************************)
\* The call of frame f is the one that runs first.
Enters(f) ==
    /\ data = f.data /\ offset = f.offset /\ pc = f.pc /\ err = f.err
    /\ log = f.log /\ comp = f.comp /\ dsize = f.dsize /\ out = f.out
    /\ cp = f.cp /\ dp = f.dp /\ num = f.num /\ readlen = f.readlen
    /\ seekback = f.seekback /\ i = f.i

Start(inp) ==
    Enters(Call(inp.data, inp.offset)) /\ peer = NoPeer /\ dat = NoDat

\* The frame f is the one that runs next.
Runs(f) ==
    /\ data' = f.data /\ offset' = f.offset /\ pc' = f.pc /\ err' = f.err
    /\ log' = f.log /\ comp' = f.comp /\ dsize' = f.dsize /\ out' = f.out
    /\ cp' = f.cp /\ dp' = f.dp /\ num' = f.num /\ readlen' = f.readlen
    /\ seekback' = f.seekback /\ i' = f.i
    /\ dat' = dat

\* A step of the running call: its frame becomes f, the waiting call's
\* frame is left alone.
Becomes(f) == Runs(f) /\ peer' = peer

Init ==
    \/ \E inp \in GeneralInputs : Start(inp)
    \/ \E inp \in OverlapInputs : Start(inp)
    \/ \E inp \in LiteralInputs : Start(inp)
    \/ \E inp \in LongLiteralInputs : Start(inp)
    \/ \E inp \in ScenarioInputs : Start(inp)
    \/ \E inp \in LongRefInputs : Start(inp)
    \/ \E inp \in HeaderInputs : Start(inp)
    \/ \E inp \in PeriodicInputs : Start(inp)

InitToken ==
    \/ \E inp \in OneByteInputs : Start(inp)
    \/ \E inp \in TwoByteInputs : Start(inp)
    \/ \E inp \in LongTokenInputsB : Start(inp)
    \/ \E inp \in LongTokenInputsC : Start(inp)

StepValidate == AtValidate(Frame) /\ Becomes(Validate(Frame))
StepWhileExit == AtWhileExit(Frame) /\ Becomes(WhileExit(Frame))
StepNop == AtNop(Frame) /\ Becomes(Nop(Frame))
StepLiteral == AtLiteral(Frame) /\ Becomes(Literal(Frame))
StepLiteralCopy == AtLiteralCopy(Frame) /\ Becomes(LiteralCopy(Frame))
StepLiteralEnd == AtLiteralEnd(Frame) /\ Becomes(LiteralEnd(Frame))
StepLongRef == AtLongRef(Frame) /\ Becomes(LongRef(Frame))
StepMediumRef == AtMediumRef(Frame) /\ Becomes(MediumRef(Frame))
StepShortRef == AtShortRef(Frame) /\ Becomes(ShortRef(Frame))
StepCopyByte == AtCopyByte(Frame) /\ Becomes(CopyByte(Frame))
StepCopyEnd == AtCopyEnd(Frame) /\ Becomes(CopyEnd(Frame))
StepFinish == AtFinish(Frame) /\ Becomes(Finish(Frame))

Next ==
    \/ StepValidate
    \/ StepWhileExit
    \/ StepNop
    \/ StepLiteral
    \/ StepLiteralCopy
    \/ StepLiteralEnd
    \/ StepLongRef
    \/ StepMediumRef
    \/ StepShortRef
    \/ StepCopyByte
    \/ StepCopyEnd
    \/ StepFinish

Spec == Init /\ [][Next]_vars

SpecToken == InitToken /\ [][Next]_vars


(***************************************************************************)
(* Calls one after another.  A later call gets its two arguments anew;     *)
(* every local of the function is left holding what the call before wrote, *)
(* so that a read of it before the call's own write shows in the result.   *)
(***************************************************************************)
CallInputs ==
    {Block(ScenarioPayload, 6),
     Block(ScenarioPayload, 2),
     Block(<<1, 98, 196, 0>>, 6),
     Block(<<1, 97>>, 1),
     Block(<<0, 2, 97, 98, 224, 0, 1>>, 6),
     Block(<<1, 97, 192>>, 3),
     Host(<<7>>, MAGIC, 3, 23, 4, <<129, 1, 98>>, <<9>>),
     Host(<< >>, [MAGIC EXCEPT ![1] = 88], 4, 22, 1, <<1, 97>>, << >>)}

InitCalls == \E inp \in CallInputs : Start(inp)

NewCall ==
    /\ Returned(Frame)
    /\ \E inp \in CallInputs :
          /\ data' = inp.data
          /\ offset' = inp.offset
    /\ pc' = "start"
    /\ err' = "none"
    /\ log' = {}
    /\ UNCHANGED <<comp, dsize, out, cp, dp, num, readlen, seekback, i, peer,
                   dat>>

NextCalls == Next \/ NewCall

SpecCalls == InitCalls /\ [][NextCalls]_vars



(***************************************************************************)
(* Two calls at once, each with its own arguments and its own locals, as   *)
(* two threads make them.  One runs, the other waits in peer; Switch hands *)
(* the processor over between any two steps.                               *)
(***************************************************************************)
InitPair ==
    \E a \in CallInputs, b \in CallInputs :
        /\ Enters(Call(a.data, a.offset))
        /\ peer = Call(b.data, b.offset)
        /\ dat = NoDat

\* Switch with the output buffer a module-level one, shared by the calls.
SwitchSharesOut ==
    /\ peer.pc # "none"
    /\ Runs([peer EXCEPT !.out = out])
    /\ peer' = Frame

Switch ==
    /\ peer.pc # "none"
    /\ Runs(peer)
    /\ peer' = Frame

NextPair == Next \/ Switch

SpecPair == InitPair /\ [][NextPair]_vars



(***************************************************************************)
(* One call that is never left unfinished: the interpreter goes on taking  *)
(* the function's steps while there is one to take.  The inputs hold the   *)
(* longest literal run and the longest back-reference.                     *)
(***************************************************************************)
\* A literal, then the long reference FF F0 00: distance 1, the largest length.
MaxCopyInputs == {Block(<<1, 97, 255, 240, 0>>, n) : n \in {514, 515, 516}}

InitLive ==
    \/ \E inp \in LongLiteralInputs : Start(inp)
    \/ \E inp \in MaxCopyInputs : Start(inp)
    \/ \E inp \in ScenarioInputs : Start(inp)
    \/ \E inp \in LongRefInputs : Start(inp)
    \/ \E inp \in PeriodicInputs : Start(inp)
    \/ \E inp \in HeaderInputs : Start(inp)
    \/ \E inp \in CallInputs : Start(inp)

SpecLive == InitLive /\ [][Next]_vars /\ WF_vars(Next)



(***************************************************************************)
(* The file tool at work: pack_folder(folder), then parse_archive on the   *)
(* file it wrote.  The decoder takes no step meanwhile.                    *)
(***************************************************************************)
\* Archive names in the order collect_files sorts them: 'a', 'ab', 'b', 47
\* times 'c', 48 times 'd', U+00E9, and 24 times U+00E9 (48 bytes of UTF-8).
NameList ==
    <<(<<97>>), (<<97, 98>>), (<<98>>), [j \in 1..47 |-> 99],
      [j \in 1..48 |-> 100], (<<233>>), [j \in 1..24 |-> 233]>>

FileSizes == {0, 1, 16, 17}

\* The choices of n names out of NameList, in its order.
NameChoices(n) ==
    {c \in [1..n -> 1..Len(NameList)] : \A j \in 1..(n - 1) : c[j] < c[j + 1]}

\* What collect_files returns for a folder of n files: sorted, each with its
\* size and as many bytes of content.
Folders(n) ==
    {[j \in 1..n |-> [name |-> NameList[c[j]], size |-> sz[j],
                      content |-> [b \in 1..sz[j] |-> 255]]] :
        c \in NameChoices(n), sz \in [1..n -> FileSizes]}

InitDat ==
    \E n \in 0..MaxFiles :
        \E files \in Folders(n) :
            /\ Enters(NoPeer)
            /\ peer = NoPeer
            /\ dat = DatCall(files)

DatBecomes(d) ==
    /\ dat' = d
    /\ UNCHANGED <<data, offset, pc, err, log, comp, dsize, out, cp, dp,
                   num, readlen, seekback, i, peer>>

StepPackBegin == dat.pc = "pack" /\ DatBecomes(PackBegin(dat))
StepPackPlan ==
    dat.pc = "plan" /\ dat.k < Len(dat.files) /\ DatBecomes(PackPlan(dat))
StepPackHeader ==
    dat.pc = "plan" /\ dat.k = Len(dat.files) /\ DatBecomes(PackHeader(dat))
StepPackEntry ==
    /\ dat.pc = "table" /\ dat.k < Len(dat.table_entries)
    /\ DatBecomes(PackEntry(dat))
StepPackTerminator ==
    /\ dat.pc = "table" /\ dat.k = Len(dat.table_entries)
    /\ DatBecomes(PackTerminator(dat))
StepPackData ==
    dat.pc = "copy" /\ dat.k < Len(dat.files) /\ DatBecomes(PackData(dat))
StepPackReturn ==
    dat.pc = "copy" /\ dat.k = Len(dat.files) /\ DatBecomes(PackReturn(dat))
StepParseHeader == dat.pc = "packed" /\ DatBecomes(ParseHeader(dat))
StepParseEntry == dat.pc = "read" /\ DatBecomes(ParseEntry(dat))

NextDat ==
    \/ StepPackBegin
    \/ StepPackPlan
    \/ StepPackHeader
    \/ StepPackEntry
    \/ StepPackTerminator
    \/ StepPackData
    \/ StepPackReturn
    \/ StepParseHeader
    \/ StepParseEntry

SpecDat == InitDat /\ [][NextDat]_vars



(***************************************************************************)
(* Properties.                                                             *)
(***************************************************************************)
\* The 4-byte little-endian field at header offset 0x10 of the host buffer.
HeaderOutputSize ==
    data[offset + 17] + 256 * data[offset + 18] + 65536 * data[offset + 19]
        + 16777216 * data[offset + 20]

Validated == pc \notin {"start", "error"}

\* C1: in every call that passes the header checks the buffer, and so the
\* returned bytes, has exactly output_size bytes, whether the decode filled
\* it, ended short or substituted zeros; no write is at an index >=
\* output_size (such a write would raise IndexError).
C1_OutputLength ==
    /\ err # "IndexError"
    /\ Validated =>
          /\ Len(out) = HeaderOutputSize
          /\ dp <= HeaderOutputSize
          /\ (pc \in {"lit", "copy"} /\ (AtLiteralCopy(Frame) \/ AtCopyByte(Frame)))
                => dp < HeaderOutputSize

\* A short decode of a long reference before the start of the buffer: three
\* substituted zeros, six bytes returned.
C1_Witness ==
    /\ pc = "done" /\ comp = <<224, 1, 0>> /\ HeaderOutputSize = 6
    /\ dp = 3 /\ Len(out) = 6 /\ "short" \in log

\* A stream of literal runs only, each with all its bytes.
RECURSIVE IsLiteralStream(_)
IsLiteralStream(s) ==
    \/ s = << >>
    \/ /\ s[1] \in 1..127
       /\ Len(s) >= 1 + s[1]
       /\ IsLiteralStream(SubSeq(s, s[1] + 2, Len(s)))

\* The bytes of its runs, concatenated.
RECURSIVE LiteralPayload(_)
LiteralPayload(s) ==
    IF s = << >> THEN << >>
    ELSE SubSeq(s, 2, s[1] + 1) \o LiteralPayload(SubSeq(s, s[1] + 2, Len(s)))

\* C2: a stream of literal runs whose bytes concatenate to O, decoded with
\* output_size = Len(O), returns exactly O, with the buffer filled and no
\* warning of a short decode.
C2_LiteralRoundTrip ==
    (pc = "done" /\ IsLiteralStream(comp) /\ dsize = Len(LiteralPayload(comp)))
        => /\ out = LiteralPayload(comp)
           /\ dp = dsize
           /\ "short" \notin log

\* Two literal runs decoded in full.
C2_Witness ==
    /\ pc = "done" /\ IsLiteralStream(comp) /\ Len(comp) >= 4
    /\ comp[1] + 1 < Len(comp)
    /\ dsize = Len(LiteralPayload(comp))
    /\ out = LiteralPayload(comp)

\* C3: after a literal run of the one byte x, a medium reference of distance
\* 1 and length L (2..33) with room for its L bytes writes L more copies of
\* x: the output starts with L + 1 copies of x.
C3_OverlapCopy ==
    (/\ pc = "done" /\ Len(comp) >= 4 /\ comp[1] = 1
     /\ comp[3] \in 192..223 /\ comp[4] = 0
     /\ dsize >= 1 + (comp[3] - 190))
        => /\ dp >= 1 + (comp[3] - 190)
           /\ \A k \in 1..(1 + (comp[3] - 190)) : out[k] = comp[2]

\* The longest medium reference: 33 copies after the literal 'a'.
C3_Witness ==
    /\ pc = "done" /\ comp = <<1, 97, 223, 0>> /\ dsize = 34
    /\ out = [k \in 1..34 |-> 97]

\* The control byte about to be read by the while loop, when it reads one.
Reads(lo, hi) ==
    /\ pc = "while" /\ cp < Len(comp) /\ dp < dsize
    /\ comp[cp + 1] \in lo..hi

\* C4: a control byte a in 0x80..0xBF takes 1 byte of input and gives length
\* ((a >> 4) & 3) + 1, in 1..4, and distance (a & 0x0F) + 1, in 1..16; 0x80
\* gives (1, 1) and 0xBF gives (4, 16).
C4_ShortRef ==
    [][Reads(128, 191) =>
          LET a == comp[cp + 1]
          IN  /\ cp' = cp + 1
              /\ pc' = "copy"
              /\ readlen' = ((a \div 16) % 4) + 1
              /\ seekback' = (a % 16) + 1
              /\ readlen' \in 1..4
              /\ seekback' \in 1..16
              /\ (a = 128 => readlen' = 1 /\ seekback' = 1)
              /\ (a = 191 => readlen' = 4 /\ seekback' = 16)]_vars

\* The byte 0xBF decoded.
C4_Witness ==
    /\ pc = "copy" /\ cp = 4 /\ comp[4] = 191 /\ i = 0
    /\ readlen = 4 /\ seekback = 16

\* C5: a control byte a in 0xC0..0xDF followed by a byte b takes 2 bytes of
\* input and gives length (a & 0x3F) + 2, in 2..33, and distance b + 1, in
\* 1..256; C0 00 gives (2, 1).
C5_MediumRef ==
    [][(Reads(192, 223) /\ cp + 1 < Len(comp)) =>
          LET a == comp[cp + 1]
              b == comp[cp + 2]
          IN  /\ cp' = cp + 2
              /\ pc' = "copy"
              /\ readlen' = (a % 64) + 2
              /\ seekback' = b + 1
              /\ readlen' \in 2..33
              /\ seekback' \in 1..256
              /\ (a = 192 /\ b = 0 => readlen' = 2 /\ seekback' = 1)]_vars

\* The bytes DF FF decoded.
C5_Witness ==
    /\ pc = "copy" /\ cp = 5 /\ comp[4] = 223 /\ comp[5] = 255 /\ i = 0
    /\ readlen = 33 /\ seekback = 256

\* C6: a control byte a in 0xE0..0xFF followed by bytes b and c takes 3
\* bytes of input and gives length (((a & 0x1F) << 4) + (b >> 4)) + 3, in
\* 3..514, and distance (((b & 0x0F) << 8) + c) + 1, in 1..4096; E0 00 00
\* gives (3, 1).
C6_LongRef ==
    [][(Reads(224, 255) /\ cp + 2 < Len(comp)) =>
          LET a == comp[cp + 1]
              b == comp[cp + 2]
              c == comp[cp + 3]
          IN  /\ cp' = cp + 3
              /\ pc' = "copy"
              /\ readlen' = ((a % 32) * 16 + (b \div 16)) + 3
              /\ seekback' = ((b % 16) * 256 + c) + 1
              /\ readlen' \in 3..514
              /\ seekback' \in 1..4096
              /\ (a = 224 /\ b = 0 /\ c = 0 => readlen' = 3 /\ seekback' = 1)]_vars

\* The bytes FF FF FF decoded.
C6_Witness ==
    /\ pc = "copy" /\ cp = 6 /\ comp[4] = 255 /\ comp[5] = 255
    /\ comp[6] = 255 /\ i = 0 /\ readlen = 514 /\ seekback = 4096

\* What the call returns for the payload p and the declared size n.
Decode(p, n) == ykcmp_decompress_from(Block(p, n).data, 0)

\* C8: when the decode ends with write_pos < output_size (the input ran out
\* of opcodes), the short-decode warning is printed, the bytes from write_pos
\* on are zero, and the bytes before it are the bytes a decode of the same
\* input gives when exactly that many are asked for.
C8_ShortDecode ==
    (pc = "done" /\ dp < dsize)
        => /\ "short" \in log
           /\ \A k \in (dp + 1)..dsize : out[k] = 0
           /\ Decode(comp, dp).out = SubSeq(out, 1, dp)
           /\ "short" \notin Decode(comp, dp).log

\* A short decode that produced bytes, the last of them by a reference.
C8_Witness ==
    /\ pc = "done" /\ comp = <<1, 97, 129, 192>> /\ dsize = 4 /\ dp = 2
    /\ out = <<97, 0, 0, 0>> /\ "short" \in log

\* C9 as claimed: a decode that fills the buffer while input bytes are left
\* unread is reported as short.
C9_Original ==
    (pc = "done" /\ dp = dsize /\ cp < Len(comp)) => "short" \in log

\* C9, amended: the warning of a short decode is printed exactly when
\* write_pos is below output_size at the end; a decode that fills the buffer
\* while input bytes are left unread prints none.
C9_ShortOnlyBelowSize ==
    pc = "done" =>
        /\ ("short" \in log) <=> (dp < dsize)
        /\ (dp = dsize /\ cp < Len(comp)) => "short" \notin log

\* The buffer filled by the literal run, the reference after it never read.
C9_Witness ==
    /\ pc = "done" /\ comp = ScenarioPayload /\ dsize = 3 /\ dp = 3
    /\ cp = 4 /\ "short" \notin log

\* C10: 03 'a' 'b' 'c' 81 02 with output_size = 6 returns 'a' 'b' 'c' 'b' 00
\* 00, ends with write_pos = 4 and prints the warning of a short decode.
C10_Scenario ==
    (pc = "done" /\ comp = ScenarioPayload /\ dsize = 6)
        => /\ out = <<97, 98, 99, 98, 0, 0>>
           /\ dp = 4
           /\ "short" \in log

\* The scenario, run to its end.
C10_Witness ==
    /\ pc = "done" /\ comp = <<3, 97, 98, 99, 129, 2>> /\ dsize = 6
    /\ cp = 6 /\ Len(out) = 6 /\ out[4] = 98

\* The bytes a token takes in the input, by its control byte a.
TokenBytes(a) ==
    IF a = 0 THEN 1
    ELSE IF a < 128 THEN 1 + a
    ELSE IF a < 192 THEN 1
    ELSE IF a < 224 THEN 2
    ELSE 3

\* The 0-based positions at which the tokens of s start, from position p on.
RECURSIVE TokenStarts(_, _)
TokenStarts(s, p) ==
    IF p >= Len(s) THEN {}
    ELSE {p} \cup TokenStarts(s, p + TokenBytes(s[p + 1]))

\* Where the last token of s ends.
RECURSIVE TokensEnd(_, _)
TokensEnd(s, p) ==
    IF p >= Len(s) THEN p ELSE TokensEnd(s, p + TokenBytes(s[p + 1]))

\* A valid stream: every token has all its bytes.
ValidStream(s) == TokensEnd(s, 0) = Len(s)

\* s with k bytes 0x00 put in before position p.
WithNops(s, p, k) == SubSeq(s, 1, p) \o Zeros(k) \o SubSeq(s, p + 1, Len(s))

\* C7: bytes 0x00 put in before any tokens of a valid stream, or after its
\* last token, do not change the decoded output; a control byte 0x00 takes 1
\* byte of input and changes neither write_pos nor the buffer.
C7_NopsChangeNothing ==
    /\ [](  (pc = "done" /\ ValidStream(comp)) =>
              LET at == TokenStarts(comp, 0) \cup {Len(comp)}
              IN  \A p \in at : \A k \in 1..MaxNops :
                     /\ Decode(WithNops(comp, p, k), dsize).out = out
                     /\ \A q \in {r \in at : r >= p} :
                           Decode(WithNops(WithNops(comp, q, 1), p, k),
                                  dsize).out = out  )
    /\ [][Reads(0, 0) =>
            /\ cp' = cp + 1
            /\ dp' = dp
            /\ out' = out
            /\ pc' = "while"]_vars

\* A valid stream with a reference decoded in full, and a control byte 0x00
\* just stepped over.
C7_Witness ==
    \/ /\ pc = "done" /\ comp = <<2, 97, 98, 129>> /\ dsize = 3
       /\ out = <<97, 98, 97>>
    \/ /\ pc = "while" /\ comp = <<1, 97, 0, 129>> /\ cp = 3 /\ dp = 1

\* The host buffer holds 20 bytes of header at the offset.
HeaderReadable == offset >= 0 /\ offset + 20 <= Len(data)

\* The 8 bytes at the offset.
HeaderMagic == [k \in 1..8 |-> data[offset + k]]

\* The 4-byte little-endian field at header offset 0x0C.
HeaderArchiveSize ==
    data[offset + 13] + 256 * data[offset + 14] + 65536 * data[offset + 15]
        + 16777216 * data[offset + 16]

\* The call has raised before the loop: no buffer, no cursor moved.
RaisedBeforeLoop ==
    /\ pc = "error"
    /\ err = "ValueError"
    /\ out = << >> /\ comp = << >> /\ cp = 0 /\ dp = 0

\* C11: a header whose 8 bytes at the offset are not the magic tag, or whose
\* archive_size is below 20, makes the call raise before the loop starts,
\* with no output.
C11_MalformedHeaderFatal ==
    (pc # "start" /\ HeaderReadable
     /\ (HeaderMagic # MAGIC \/ HeaderArchiveSize < 20))
        => RaisedBeforeLoop

\* C12: when the buffer ends before the archive does (offset + archive_size
\* > len(data)) the call raises before the loop runs and returns nothing.
C12_TruncatedInputFatal ==
    (pc # "start" /\ HeaderReadable
     /\ offset + HeaderArchiveSize > Len(data))
        => RaisedBeforeLoop

\* A well-formed header whose archive is one byte longer than the buffer.
C12_Witness ==
    /\ pc = "error" /\ HeaderReadable /\ HeaderMagic = MAGIC
    /\ offset = 1
    /\ HeaderArchiveSize = Len(data)
    /\ offset + HeaderArchiveSize = Len(data) + 1
    /\ out = << >>

\* The for loop of a back-reference is about to copy a byte.
CopiesByte == pc = "copy" /\ i < readlen /\ dp < dsize

\* C13: a copy step whose source index write_pos - distance is negative
\* writes 0x00 at write_pos, advances write_pos by one and raises nothing; a
\* copy step whose source index is >= 0 writes the byte of the output buffer
\* at that index.
C13_OutOfRangeReference ==
    [][CopiesByte =>
          LET src_pos == dp - seekback
          IN  /\ err' = "none"
              /\ pc' = "copy"
              /\ dp' = dp + 1
              /\ out' = [out EXCEPT ![dp + 1] =
                            IF src_pos < 0 THEN 0 ELSE out[src_pos + 1]]]_vars

\* One copy of distance 2 after a single literal byte: its first byte had a
\* negative source, its second the literal.
C13_Witness ==
    /\ pc = "copy" /\ comp = <<1, 97, 192, 1>> /\ seekback = 2 /\ i = 2
    /\ dp = 3 /\ out = <<97, 0, 97, 0>> /\ err = "none"

\* The while loop is over.
LoopStopped == pc \in {"after", "done"}

\* C14 as claimed: when the loop has stopped, read_pos is at the end of the
\* input or write_pos at the end of the buffer, also for an input that ends
\* in a reference without its parameter bytes.
C14_Original == LoopStopped => (cp = Len(comp) \/ dp = dsize)

\* The control byte at read_pos is a medium or long reference whose
\* parameter bytes the input does not hold.
AtCutReference ==
    /\ cp < Len(comp)
    /\ \/ comp[cp + 1] \in 192..223 /\ cp + 1 >= Len(comp)
       \/ comp[cp + 1] \in 224..255 /\ cp + 2 >= Len(comp)

\* C14, amended: when the loop has stopped, read_pos is at the end of the
\* input, or write_pos at the end of the buffer, or read_pos is at a medium
\* or long reference without its parameter bytes (the loop then stopped by
\* break, with neither cursor at its end).
C14_LoopStopCondition ==
    LoopStopped => (cp = Len(comp) \/ dp = dsize \/ AtCutReference)

\* The loop stopped at a medium reference without its byte b, with one
\* input byte unread and two bytes of the buffer unwritten.
C14_Witness ==
    /\ pc = "done" /\ comp = <<1, 97, 192>> /\ cp = 2 /\ dp = 1 /\ dsize = 3
    /\ AtCutReference

\* C15: read_pos and write_pos are 0 when the loop starts, never decrease,
\* and stay within 0..len(input) and 0..output_size; a literal run or a copy
\* stops as soon as write_pos reaches output_size.
C15_CursorInvariant ==
    /\ [](Validated =>
             /\ 0 <= cp /\ cp <= Len(comp)
             /\ 0 <= dp /\ dp <= dsize)
    /\ [][/\ (pc = "start" /\ pc' = "while") => (cp' = 0 /\ dp' = 0)
          /\ cp' >= cp
          /\ dp' >= dp
          /\ (pc \in {"lit", "copy"} /\ dp = dsize)
                => (pc' = "while" /\ dp' = dp /\ cp' = cp /\ out' = out)]_vars

\* A literal run of three bytes stopped after two, the buffer being full.
C15_Witness ==
    /\ pc = "lit" /\ comp = ScenarioPayload /\ dsize = 2 /\ dp = 2
    /\ num = 3 /\ i = 2 /\ cp = 3

\* C16: the source byte of a copy step, when one is read at all, is at an
\* index src_pos with 0 <= src_pos < write_pos, a position an earlier step
\* wrote; the unwritten tail out[dp..] is never read.
C16_NoReadBeforeWrite ==
    CopiesByte =>
        LET src_pos == dp - seekback
        IN  /\ seekback >= 1
            /\ src_pos >= 0 => src_pos < dp

\* A copy step about to read the byte written just before it.
C16_Witness ==
    /\ CopiesByte /\ comp = <<1, 97, 192, 0>> /\ seekback = 1
    /\ dp = 1 /\ out[1] = 97 /\ dsize = 3

\* A literal run whose control byte asks for more bytes than the input has.
TruncatedLiteral == pc = "lit" /\ Len(comp) - (cp - i) < num

\* C17: a literal run of a bytes with only k < a input bytes left copies
\* min(k, output_size - write_pos) bytes, then the loop is left and the
\* decode returns, with no error raised.
C17_LiteralTruncation ==
    /\ [][TruncatedLiteral =>
            LET k == Len(comp) - (cp - i)
                room == dsize - (dp - i)
            IN  /\ err' = "none"
                /\ pc' \in {"lit", "while"}
                /\ pc' = "lit" =>
                      /\ i < Min(k, room)
                      /\ i' = i + 1 /\ cp' = cp + 1 /\ dp' = dp + 1
                      /\ out' = [out EXCEPT ![dp + 1] = comp[cp + 1]]
                /\ pc' = "while" =>
                      /\ i = Min(k, room)
                      /\ out' = out /\ cp' = cp /\ dp' = dp
                      /\ (cp = Len(comp) \/ dp = dsize)]_vars
    /\ [][(pc = "while" /\ (cp >= Len(comp) \/ dp >= dsize)) =>
            (pc' = "after" /\ err' = "none" /\ out' = out)]_vars
    /\ [][pc = "after" => (pc' = "done" /\ err' = "none" /\ out' = out)]_vars

\* A run of two with one byte of input: one byte copied, room for more.
C17_Witness ==
    /\ TruncatedLiteral /\ comp = <<2, 97>> /\ num = 2 /\ i = 1 /\ cp = 2
    /\ dsize = 3 /\ dp = 1 /\ out = <<97, 0, 0>> /\ err = "none"

\* The host buffer's bytes in [offset + 20, offset + archive_size).
PayloadRange ==
    [k \in 1..(HeaderArchiveSize - 20) |-> data[offset + 20 + k]]

\* C18: the payload the loop works on is the host buffer's range
\* [offset + 20, offset + archive_size), and every byte a step consumes as a
\* control byte, a parameter or a literal lies in it: none from the header,
\* none at or after offset + archive_size.
C18_PayloadExtent ==
    /\ [](Validated => comp = PayloadRange)
    /\ [][(Validated /\ cp' # cp) =>
            /\ comp' = comp
            /\ offset + 20 <= offset + 20 + cp
            /\ offset + 20 + cp' <= offset + HeaderArchiveSize
            /\ offset + 20 + cp' <= Len(data)]_vars

\* A finished decode of a block with two host bytes before it and one after.
C18_Witness ==
    /\ pc = "done" /\ offset = 2 /\ offset + HeaderArchiveSize = Len(data) - 1
    /\ comp = ScenarioPayload /\ cp = Len(comp) /\ dp = 4

\* What the caller gets from the call in frame f: the exception raised, or
\* the bytes returned, and what the call printed.
Result(f) ==
    [pc |-> f.pc, err |-> f.err, log |-> f.log,
     out |-> IF f.pc = "done" THEN f.out ELSE << >>]

\* C19: whatever calls ran before it, a call returns what a first call with
\* the same data and offset returns: the result is a function of the two
\* arguments, and nothing an earlier call wrote reaches it.
C19_PureFunction ==
    Returned(Frame) => Result(Frame) = Result(ykcmp_decompress_from(data, offset))

\* A call of literals only, returned after an earlier call that ended with a
\* back-reference: the earlier call's distance and length are still there.
C19_Witness ==
    /\ pc = "done" /\ comp = <<1, 97>> /\ out = <<97>>
    /\ seekback = 1 /\ readlen = 6

\* C20: of two calls whose steps interleave in any order, each returns what
\* it returns when it runs alone.
C20_ConcurrentDecodes ==
    /\ Returned(Frame) =>
          Result(Frame) = Result(Run(Call(data, offset)))
    /\ Returned(peer) =>
          Result(peer) = Result(Run(Call(peer.data, peer.offset)))

\* Both calls under way at once: one in a back-reference copy, the other in
\* a literal run, each with bytes of its own written.
C20_Witness ==
    /\ pc = "copy" /\ comp = <<1, 98, 196, 0>> /\ dp = 3 /\ out = <<98, 98, 98, 0, 0, 0>>
    /\ peer.pc = "lit" /\ peer.comp = ScenarioPayload /\ peer.dp = 2
    /\ peer.out = <<97, 98, 0, 0, 0, 0>>

\* C21: a copy step whose source is inside the buffer writes the byte that
\* stands at dp - seekback when the step runs, bytes written by earlier steps
\* of the same copy included; so after i steps of a copy begun at p = dp - i
\* with seekback <= p, the bytes written repeat the seekback bytes before p:
\* out[p + j] = out[p - seekback + (j mod seekback)].
C21_ByteAtATime ==
    /\ [][(CopiesByte /\ dp - seekback >= 0) =>
             out'[dp + 1] = out[dp - seekback + 1]]_vars
    /\ []((pc = "copy" /\ seekback <= dp - i) =>
             \A j \in 0..(i - 1) :
                 out[dp - i + j + 1]
                     = out[dp - i - seekback + (j % seekback) + 1])

\* Distance 2, length 4 after 'a' 'b' 'c': the pair 'b' 'c' written twice.
C21_Witness ==
    /\ pc = "copy" /\ comp = <<3, 97, 98, 99, 194, 1>> /\ seekback = 2
    /\ readlen = 4 /\ i = 4 /\ dp = 7
    /\ out = <<97, 98, 99, 98, 99, 98, 99>>

\* C22: a step that writes the buffer writes the one index dp and moves dp
\* on by one; a step that leaves dp alone leaves the buffer alone.  So the
\* indices are written in increasing order, each once, and no byte below dp
\* changes again.
C22_WriteOnce ==
    [][Validated =>
          /\ dp' \in {dp, dp + 1}
          /\ Len(out') = Len(out)
          /\ \A k \in 1..Len(out) : k # dp + 1 => out'[k] = out[k]
          /\ dp' = dp => out' = out]_vars

\* Two literal bytes written, one after the other, the third index untouched.
C22_Witness ==
    /\ pc = "lit" /\ comp = <<2, 97, 98>> /\ i = 2 /\ dp = 2 /\ dsize = 3
    /\ out = <<97, 98, 0>>

\* C23: every call returns or raises.  A pass of the while loop leaves the
\* loop or moves cp on by at least one, within the input, so there are at
\* most len(input) passes; a literal run takes at most 127 steps and a
\* back-reference copy at most 514, each step counting i up by one.
C23_Terminates ==
    /\ <>(pc \in {"done", "error"})
    /\ [][pc = "while" =>
            \/ pc' = "after"
            \/ cp < Len(comp) /\ cp' > cp /\ cp' <= Len(comp)]_vars
    /\ [](pc = "lit" => (num <= 127 /\ i <= num))
    /\ [](pc = "copy" => (readlen <= 514 /\ i <= readlen))
    /\ [][(pc \in {"lit", "copy"} /\ pc' = pc) => i' = i + 1]_vars

\* The longest copy, run to its end: 514 bytes after the literal.
C23_Witness ==
    /\ pc = "done" /\ comp = <<1, 97, 255, 240, 0>> /\ readlen = 514
    /\ i = 514 /\ dp = 515 /\ dsize = 516

\* C24: a call whose offset leaves no room for the 20 header bytes raises
\* ValueError with no header field read (no version warning, whatever the
\* bytes); and every raise of the validation leaves no buffer allocated, no
\* payload taken and no pass of the loop made.
C24_ValidationAborts ==
    /\ (pc # "start" /\ ~HeaderReadable) =>
          (pc = "error" /\ err = "ValueError" /\ log = {})
    /\ pc = "error" =>
          /\ err = "ValueError"
          /\ out = << >> /\ comp = << >> /\ dsize = 0
          /\ cp = 0 /\ dp = 0 /\ num = 0 /\ readlen = 0 /\ i = 0

\* The offset at the very end of a 26-byte buffer.
C24_Witness ==
    /\ pc = "error" /\ err = "ValueError" /\ offset = 26 /\ Len(data) = 26
    /\ out = << >> /\ log = {}

\* C25: when the loop reads a medium control byte with no byte after it, or
\* a long one with fewer than two, it is left at once: cp and dp stay, the
\* buffer is not written, no error is raised, and the call then returns the
\* buffer as it stands.
C25_TruncatedReference ==
    /\ [][(pc = "while" /\ dp < dsize /\ AtCutReference) =>
            /\ pc' = "after" /\ err' = "none"
            /\ cp' = cp /\ dp' = dp /\ out' = out]_vars
    /\ [][pc = "after" =>
            /\ pc' = "done" /\ err' = "none"
            /\ cp' = cp /\ dp' = dp /\ out' = out]_vars

\* The loop left at the long control byte E0 followed by one byte only.
C25_Witness ==
    /\ pc = "after" /\ comp = TokenPrefix \o <<224, 5>> /\ cp = 3 /\ dp = 2
    /\ out[1] = 97 /\ out[2] = 98 /\ out[3] = 0 /\ err = "none"

\* The host buffer d with the output_size field of the header at o set to n.
WithOutputSize(d, o, n) ==
    [k \in 1..Len(d) |->
        IF k \in (o + 17)..(o + 20) THEN ToBytesLE4(n)[k - o - 16] ELSE d[k]]

\* C26: the buffer a call returns for output_size N2 starts with the buffer
\* the same input gives for any output_size N1 <= N2.
C26_OutputSizePrefix ==
    pc = "done" =>
        \A n1 \in 0..dsize :
            LET r == ykcmp_decompress_from(WithOutputSize(data, offset, n1), offset)
            IN  /\ r.pc = "done"
                /\ r.out = SubSeq(out, 1, n1)

\* Ten bytes asked of a stream that gives nine: every shorter size cuts the
\* run of 'c' written by the reference.
C26_Witness ==
    /\ pc = "done" /\ comp = <<3, 97, 98, 99, 196, 0>> /\ dsize = 10
    /\ out = <<97, 98, 99, 99, 99, 99, 99, 99, 99, 0>>

\* C27: a decode of a prefix of the payload, with the same output_size, ends
\* with its write cursor no further than the decode of the whole payload,
\* and the bytes it wrote are the bytes the whole payload gives there.
C27_InputExtension ==
    pc = "done" =>
        \A m \in 0..Len(comp) :
            LET r == Decode(SubSeq(comp, 1, m), dsize)
            IN  /\ r.pc = "done"
                /\ r.dp <= dp
                /\ SubSeq(r.out, 1, r.dp) = SubSeq(out, 1, r.dp)

\* The prefix 01 'a' C0 stops at the reference whose parameter the whole
\* payload supplies.
C27_Witness ==
    /\ pc = "done" /\ comp = <<1, 97, 192, 1>> /\ dsize = 3 /\ dp = 3
    /\ out = <<97, 0, 97>>

\* C28: a 0x00 byte read as a control byte is stepped over and writes
\* nothing; a 0x00 byte inside a literal run is written to the output and
\* moves dp on; a 0x00 byte as b or c of a medium or long reference is its
\* parameter: distance 1 for a medium b, the length and distance fields of a
\* long reference computed with b = 0 or c = 0.
C28_ZeroByteByPosition ==
    /\ [][Reads(0, 0) =>
            (pc' = "while" /\ cp' = cp + 1 /\ dp' = dp /\ out' = out)]_vars
    /\ [][(pc = "lit" /\ pc' = "lit" /\ comp[cp + 1] = 0) =>
            /\ cp' = cp + 1 /\ dp' = dp + 1
            /\ out' = [out EXCEPT ![dp + 1] = 0]]_vars
    /\ [][(Reads(192, 223) /\ cp + 1 < Len(comp) /\ comp[cp + 2] = 0) =>
            /\ pc' = "copy" /\ cp' = cp + 2 /\ dp' = dp
            /\ seekback' = 1 /\ readlen' = comp[cp + 1] - 192 + 2]_vars
    /\ [][(Reads(224, 255) /\ cp + 2 < Len(comp)
              /\ (comp[cp + 2] = 0 \/ comp[cp + 3] = 0)) =>
            LET a == comp[cp + 1]
                b == comp[cp + 2]
                c == comp[cp + 3]
            IN  /\ pc' = "copy" /\ cp' = cp + 3 /\ dp' = dp
                /\ readlen' = (a - 224) * 16 + (b \div 16) + 3
                /\ seekback' = (b % 16) * 256 + c + 1]_vars

\* The literal run 01 00 after the prefix: the zero written as the third
\* byte of the output.
C28_Witness ==
    /\ pc = "lit" /\ comp = TokenPrefix \o <<1, 0>> /\ num = 1 /\ i = 1
    /\ cp = 5 /\ dp = 3 /\ out[1] = 97 /\ out[2] = 98 /\ out[3] = 0

\* C29: the bytes a call returns are those of the block that holds, at
\* offset 0 with version 4 and nothing around it, the same payload bytes and
\* the same output_size: the version field and the bytes of the host buffer
\* outside the archive range have no part in them.
C29_PayloadAndSizeOnly ==
    pc = "done" => out = Decode(PayloadRange, HeaderOutputSize).out

\* A block of version 3 with two host bytes before it and one after.
C29_Witness ==
    /\ pc = "done" /\ offset = 2 /\ "version" \in log
    /\ Len(data) = offset + HeaderArchiveSize + 1
    /\ PayloadRange = ScenarioPayload /\ HeaderOutputSize = 6
    /\ out = <<97, 98, 99, 98, 0, 0>>

\* pack_folder has written the file.
Packed == dat.pc \in {"packed", "read", "parsed"}

\* The file holds the header, one record per file and the all-zero
\* terminator, and the offsets are aligned, behind the table and in order
\* without overlap.
PackLayout ==
    LET n == Len(dat.files)
        t == dat.table_entries
    IN  /\ Len(t) = n
        /\ Len(dat.fout) >= HEADER_SIZE + ENTRY_SIZE * (n + 1)
        /\ SubSeq(dat.fout, 1, Len(MAGIC_PREFIX)) = MAGIC_PREFIX
        /\ \A j \in (Len(MAGIC_PREFIX) + 1)..HEADER_SIZE : dat.fout[j] = 0
        /\ \A k \in 1..n :
              LET at == HEADER_SIZE + ENTRY_SIZE * (k - 1)
                  nb == EncodeUtf8(dat.files[k].name)
              IN  /\ SubSeq(dat.fout, at + 1, at + Len(nb)) = nb
                  /\ \A j \in (Len(nb) + 1)..NAME_LEN : dat.fout[at + j] = 0
                  /\ FromBytesLE(SubSeq(dat.fout, at + NAME_LEN + 1,
                                        at + NAME_LEN + 8)) = dat.files[k].size
                  /\ FromBytesLE(SubSeq(dat.fout, at + NAME_LEN + 9,
                                        at + NAME_LEN + 16)) = t[k].offset
        /\ \A j \in 1..ENTRY_SIZE :
              dat.fout[HEADER_SIZE + ENTRY_SIZE * n + j] = 0
        /\ \A k \in 1..n :
              /\ t[k].offset % 16 = 0
              /\ t[k].offset >= 16 + 64 * (n + 1)
              /\ t[k].size = dat.files[k].size
        /\ \A k \in 1..(n - 1) : t[k].offset + t[k].size <= t[k + 1].offset

\* parse_archive gave back the n entries in order and stopped at the
\* terminator.
ParseRoundTrip ==
    LET n == Len(dat.files)
    IN  /\ dat.stop = "terminator"
        /\ dat.pos = HEADER_SIZE + ENTRY_SIZE * (n + 1)
        /\ dat.entries =
              [k \in 1..n |-> [index |-> k - 1,
                               name |-> dat.files[k].name,
                               size |-> dat.files[k].size,
                               offset |-> dat.table_entries[k].offset]]

\* C30 as claimed: every folder of n >= 1 files is packed, with the layout
\* and the round trip.
C30_Original ==
    (dat.pc # "off" /\ Len(dat.files) >= 1) =>
        /\ dat.pc # "raised"
        /\ Packed => PackLayout
        /\ dat.pc = "parsed" => ParseRoundTrip

\* C30: for a folder of n >= 1 files whose names each take fewer than 0x30
\* bytes of UTF-8, pack_folder writes the 0x10-byte header, n entries of
\* 0x40 bytes and the all-zero terminator, with every offset a multiple of
\* 0x10, >= 0x10 + 0x40 * (n + 1) and the ranges disjoint in table order,
\* and parse_archive on that file returns those n entries in order and
\* stops at the terminator; a name of 0x30 bytes or more makes pack_folder
\* raise ValueError with no file written.
C30_PackRoundTrip ==
    (dat.pc # "off" /\ Len(dat.files) >= 1) =>
        /\ (\A k \in 1..Len(dat.files) : NameFits(dat.files[k].name)) =>
              /\ dat.pc # "raised"
              /\ Packed => PackLayout
              /\ dat.pc = "parsed" => ParseRoundTrip
        /\ dat.pc = "raised" =>
              /\ dat.err = "ValueError" /\ dat.fout = << >>
              /\ \E k \in 1..Len(dat.files) : ~NameFits(dat.files[k].name)

\* Two files parsed back: 17 bytes at 0xD0, then 16 bytes at the next
\* multiple of 0x10, under the 47-byte name and the two-byte name U+00E9.
C30_Witness ==
    /\ dat.pc = "parsed" /\ Len(dat.entries) = 2
    /\ dat.entries[1].name = [j \in 1..47 |-> 99]
    /\ dat.entries[1].size = 17 /\ dat.entries[1].offset = 208
    /\ dat.entries[2].name = <<233>>
    /\ dat.entries[2].size = 16 /\ dat.entries[2].offset = 240

=============================================================================
